---- MODULE Spec2Model ----
(***************************************************************************)
(* Model of financas/nubank-manual/src/App.js: a React Native screen set   *)
(* over a local SQLite store (accounts, categories, transactions,          *)
(* fixed_items, settings).                                                  *)
(*                                                                          *)
(* Conventions of the model                                                 *)
(*  - A text (a JS string typed by the user or stored in a TEXT column) is  *)
(*    a sequence of tokens; a token is one character ("5", ",", " ") or,    *)
(*    for names, one whitespace-free word ("Mercado").                      *)
(*  - A JS number is a record [nan, v]; v counts tenths (0.5 is 5), and     *)
(*    every arithmetic result is rounded to Precision significant bits,     *)
(*    round-half-to-even, as IEEE-754 does with 53 bits.                    *)
(*  - A date string "YYYY-MM-DD" is the integer YYYYMMDD (the order of      *)
(*    fixed-width digit strings is the order of their numbers); 0 is the    *)
(*    empty string.                                                         *)
(*  - An instant is a number of hours since 2023-01-01T00:00Z; the device   *)
(*    timezone is a fixed offset in hours (local = UTC + tz).               *)
(***************************************************************************)
EXTENDS Integers, Sequences, FiniteSets, TLC

VARIABLES
    now,            \* the instant new Date() returns
    tz,             \* the device's timezone offset, hours east of UTC
    tables,         \* names of the tables that exist in finance.db
    accounts,       \* rows of table accounts
    categories,     \* rows of table categories
    transactions,   \* rows of table transactions
    fixed_items,    \* rows of table fixed_items
    settings,       \* rows of table settings
    seq,            \* sqlite_sequence: last AUTOINCREMENT id per table
    initPc,         \* position of the running initDb call (0: none running)
    initRuns,       \* completed initDb calls, capped at MaxLaunches
    tab,            \* App.tab: the mounted screen
    items,          \* Fixos.items
    sum,            \* Dashboard.sum (<<>> is null)
    hist,           \* Historico.items
    mounting,       \* Dashboard's mount-time refresh has not reached the store
    last            \* the last handler run: its inputs and how it ended

vars ==
    << now, tz, tables, accounts, categories, transactions, fixed_items,
       settings, seq, initPc, initRuns, tab, items, sum, hist, mounting, last >>

storeVars ==
    << tables, accounts, categories, transactions, fixed_items, settings, seq >>

(***************************************************************************)
(* Bounds of the model.                                                     *)
(***************************************************************************)
\* significant bits of a number (53 in the code's doubles)
Precision == 6
\* rows ever inserted into the transactions table
MaxTx == 2
\* rows the fixed_items table may hold
MaxFixed == 2
\* rows of the transactions table a summary is taken over
MaxRows == 3
\* category rows the user may add or replace through Categories.save
MaxCatSaves == 1
\* launches of the app (initDb calls) in one behaviour
MaxLaunches == 2
\* instants the month specification draws "now" from
NowSteps == 12

(***************************************************************************)
(* Texts.                                                                   *)
(***************************************************************************)
T(s) == << s >>

IsSpace(c) == c = " "

RECURSIVE TrimLeft(_)
TrimLeft(s) ==
    IF s # << >> /\ IsSpace(Head(s)) THEN TrimLeft(Tail(s)) ELSE s

RECURSIVE TrimRight(_)
TrimRight(s) ==
    IF s # << >> /\ IsSpace(s[Len(s)])
    THEN TrimRight(SubSeq(s, 1, Len(s) - 1))
    ELSE s

\* String.prototype.trim
Trim(s) == TrimRight(TrimLeft(s))

\* String.prototype.replace(",", "."): the first "," only
RECURSIVE ReplaceComma(_)
ReplaceComma(s) ==
    IF s = << >> THEN << >>
    ELSE IF Head(s) = "," THEN << "." >> \o Tail(s)
    ELSE << Head(s) >> \o ReplaceComma(Tail(s))

DigitChars == << "0", "1", "2", "3", "4", "5", "6", "7", "8", "9" >>

IsDigit(c) == \E i \in 1..10 : DigitChars[i] = c

DigitVal(c) == (CHOOSE i \in 1..10 : DigitChars[i] = c) - 1

\* length of the longest prefix of s made of digits
RECURSIVE DigitRun(_)
DigitRun(s) ==
    IF s # << >> /\ IsDigit(Head(s)) THEN 1 + DigitRun(Tail(s)) ELSE 0

\* value of a sequence of digits
RECURSIVE DigitsValue(_)
DigitsValue(s) ==
    IF s = << >> THEN 0
    ELSE 10 * DigitsValue(SubSeq(s, 1, Len(s) - 1)) + DigitVal(s[Len(s)])

(***************************************************************************)
(* Numbers.                                                                 *)
(***************************************************************************)
NaN == [nan |-> TRUE, v |-> 0]

Num(x) == [nan |-> FALSE, v |-> x]

Abs(x) == IF x < 0 THEN -x ELSE x

RECURSIVE Pow2(_)
Pow2(n) == IF n = 0 THEN 1 ELSE 2 * Pow2(n - 1)

\* spacing of the representable numbers around magnitude a
RECURSIVE UlpFrom(_, _)
UlpFrom(a, u) == IF a < Pow2(Precision) * u THEN u ELSE UlpFrom(a, 2 * u)

Ulp(a) == UlpFrom(a, 1)

\* magnitude a rounded to a multiple of u, ties to the even multiple
RoundTo(a, u) ==
    LET q == a \div u
        r == a % u
    IN  IF 2 * r < u THEN q * u
        ELSE IF 2 * r > u THEN (q + 1) * u
        ELSE IF q % 2 = 0 THEN q * u
        ELSE (q + 1) * u

\* the representable number nearest to x
Fl(x) ==
    LET a == Abs(x)
        r == RoundTo(a, Ulp(a))
    IN  IF x < 0 THEN -r ELSE r

\* a + b and a - b on numbers
FAdd(a, b) == Fl(a + b)

FSub(a, b) == Fl(a - b)

\* value, in tenths, of the decimal literal with integer digits ip and
\* fraction digits fp (fractions of one digit at most are in the model)
DecimalValue(ip, fp) ==
    Fl(10 * DigitsValue(ip) + (IF fp = << >> THEN 0 ELSE DigitVal(fp[1])))

\* the longest prefix of s that is digits [ "." digits ], as <<ip, fp, len>>;
\* len = 0 when s starts with no number
NumberPrefix(s) ==
    LET n1 == DigitRun(s)
        r1 == SubSeq(s, n1 + 1, Len(s))
        dot == r1 # << >> /\ Head(r1) = "."
        n2 == IF dot THEN DigitRun(Tail(r1)) ELSE 0
    IN  IF n1 = 0 /\ n2 = 0 THEN << << >>, << >>, 0 >>
        ELSE IF dot
        THEN << SubSeq(s, 1, n1), SubSeq(s, n1 + 2, n1 + 1 + n2), n1 + 1 + n2 >>
        ELSE << SubSeq(s, 1, n1), << >>, n1 >>

HasSign(s) == s # << >> /\ Head(s) \in {"-", "+"}

Signed(s, x) == IF s # << >> /\ Head(s) = "-" THEN -x ELSE x

\* Number(s) of a string: the whole trimmed string must be a literal
StrToNumber(s) ==
    LET t == Trim(s)
        b == IF HasSign(t) THEN Tail(t) ELSE t
        p == NumberPrefix(b)
    IN  IF t = << >> THEN Num(0)
        ELSE IF p[3] = 0 \/ p[3] # Len(b) THEN NaN
        ELSE Num(Signed(t, DecimalValue(p[1], p[2])))

\* parseFloat(s): the longest numeric prefix
ParseFloat(s) ==
    LET t == TrimLeft(s)
        b == IF HasSign(t) THEN Tail(t) ELSE t
        p == NumberPrefix(b)
    IN  IF p[3] = 0 THEN NaN
        ELSE Num(Signed(t, DecimalValue(p[1], p[2])))

\* parseInt(s): the longest prefix of digits
ParseInt(s) ==
    LET t == TrimLeft(s)
        b == IF HasSign(t) THEN Tail(t) ELSE t
        n == DigitRun(b)
    IN  IF n = 0 THEN NaN
        ELSE Num(Signed(t, DigitsValue(SubSeq(b, 1, n))))

\* !x of a number
Falsy(x) == x.nan \/ x.v = 0

\* Math.abs and unary minus
MathAbs(x) == IF x.nan THEN NaN ELSE Num(Abs(x.v))

Neg(x) == IF x.nan THEN NaN ELSE Num(-x.v)

(***************************************************************************)
(* Dates.  Months are numbered 0..11 as Date.getMonth() numbers them.       *)
(***************************************************************************)
IsLeap(y) == (y % 4 = 0 /\ y % 100 # 0) \/ y % 400 = 0

DaysInMonth(y, m) ==
    IF m = 1 THEN (IF IsLeap(y) THEN 29 ELSE 28)
    ELSE IF m \in {3, 5, 8, 10} THEN 30
    ELSE 31

\* days from 2023-01-01 to the first day of year y (y >= 2023)
RECURSIVE DaysBeforeYear(_)
DaysBeforeYear(y) ==
    IF y <= 2023 THEN 0
    ELSE DaysBeforeYear(y - 1) + (IF IsLeap(y - 1) THEN 366 ELSE 365)

\* days from 2023-01-01 to the first day of month m of year y
RECURSIVE DaysBeforeMonth(_, _)
DaysBeforeMonth(y, m) ==
    IF m = 0 THEN DaysBeforeYear(y)
    ELSE DaysBeforeMonth(y, m - 1) + DaysInMonth(y, m - 1)

\* the day new Date(y, m, d) names: a month of 12 is January of the next
\* year and a day of 0 is the day before the 1st
DayNumber(y, m, d) == DaysBeforeMonth(y + (m \div 12), m % 12) + d - 1

YearOfDay(n) ==
    CHOOSE y \in 2023..2026 : DaysBeforeYear(y) <= n /\ n < DaysBeforeYear(y + 1)

MonthOfDay(n) ==
    LET y == YearOfDay(n)
    IN  CHOOSE m \in 0..11 :
            /\ DaysBeforeMonth(y, m) <= n
            /\ n < DaysBeforeMonth(y, m) + DaysInMonth(y, m)

DateOfDay(n) == n - DaysBeforeMonth(YearOfDay(n), MonthOfDay(n)) + 1

\* the string "YYYY-MM-DD" of year y, month number mm (1..12) and day d
DateString(y, mm, d) == y * 10000 + mm * 100 + d

\* Date.toISOString().slice(0, 10): the UTC calendar day of instant h
ToISODate(h) ==
    LET n == h \div 24
    IN  DateString(YearOfDay(n), MonthOfDay(n) + 1, DateOfDay(n))

\* the instant of new Date(y, m, d): local midnight of that day
LocalMidnight(y, m, d) == DayNumber(y, m, d) * 24 - tz

\* Date.getFullYear() and Date.getMonth() of instant h: local calendar
GetFullYear(h) == YearOfDay((h + tz) \div 24)

GetMonth(h) == MonthOfDay((h + tz) \div 24)

\* getMonthRangeISO(new Date()) and monthRange(): the same computation
GetMonthRangeISO ==
    LET y == GetFullYear(now)
        m == GetMonth(now)
    IN  [ start |-> ToISODate(LocalMidnight(y, m, 1)),
          end   |-> ToISODate(LocalMidnight(y, m + 1, 0)) ]

(***************************************************************************)
(* The store: finance.db behind execSql.  A table is the set of its rows;   *)
(* a statement on a table that does not exist is rejected.                  *)
(***************************************************************************)
\* SQL NULL in an INTEGER column (row ids start at 1)
NULL == 0

TableNames == << "accounts", "categories", "transactions", "settings", "fixed_items" >>

DefaultAccount == T("Conta Padrão")

\* the seeds of initDb: name, kind, is_fixed
seeds ==
    << << T("Aluguel/Condomínio"), "expense", 1 >>,
       << T("Internet"), "expense", 1 >>,
       << T("Energia"), "expense", 1 >>,
       << T("Mercado"), "expense", 0 >>,
       << T("Transporte"), "expense", 0 >>,
       << T("Lazer"), "expense", 0 >>,
       << T("Salário"), "income", 0 >>,
       << T("Outros"), "expense", 0 >> >>

\* SELECT id FROM accounts WHERE name = ?  (the rows)
AccountsNamed(n) == { a \in accounts : a.name = n }

\* SELECT id FROM categories WHERE name = ?  (the rows)
CategoriesNamed(n) == { c \in categories : c.name = n }

\* r.rows.length ? r.rows.item(0).id : null
CategoryIdOf(n) ==
    IF CategoriesNamed(n) = {} THEN NULL
    ELSE (CHOOSE c \in CategoriesNamed(n) : TRUE).id

\* INSERT OR IGNORE INTO accounts(name, institution, type): name is UNIQUE
InsertOrIgnoreAccount(n) ==
    IF AccountsNamed(n) # {}
    THEN /\ accounts' = accounts
         /\ seq' = seq
    ELSE /\ accounts' = accounts \cup { [id |-> seq.accounts + 1, name |-> n] }
         /\ seq' = [seq EXCEPT !.accounts = @ + 1]

\* the row INSERT ... INTO categories(name, kind, is_fixed) builds
NewCategory(n, k, f) ==
    [id |-> seq.categories + 1, name |-> n, kind |-> k, is_fixed |-> f]

\* a seeding that replaces the row of the name: the seed's kind and flag
\* under a new id
InsertSeedOverCategory(n, k, f) ==
    /\ categories' = { c \in categories : c.name # n } \cup { NewCategory(n, k, f) }
    /\ seq' = [seq EXCEPT !.categories = @ + 1]

\* INSERT OR IGNORE INTO categories: name is UNIQUE, a conflict keeps the
\* old row
InsertOrIgnoreCategory(n, k, f) ==
    IF CategoriesNamed(n) # {}
    THEN /\ categories' = categories
         /\ seq' = seq
    ELSE /\ categories' = categories \cup { NewCategory(n, k, f) }
         /\ seq' = [seq EXCEPT !.categories = @ + 1]

\* INSERT OR REPLACE INTO categories: a conflict on name deletes the old
\* row, and the new row takes the next AUTOINCREMENT id
InsertOrReplaceCategory(n, k, f) ==
    /\ categories' = (categories \ CategoriesNamed(n)) \cup { NewCategory(n, k, f) }
    /\ seq' = [seq EXCEPT !.categories = @ + 1]

\* the row INSERT INTO transactions(...) builds; amount is REAL NOT NULL
NewTransaction(id, tdate, description, amount, kind, accId, catId, note) ==
    [ id |-> id, tdate |-> tdate, description |-> description,
      amount |-> amount, kind |-> kind, account_id |-> accId,
      category_id |-> catId, note |-> note ]

\* a number binds to a REAL/INTEGER NOT NULL column unless it is NaN, which
\* SQLite stores as NULL
Bindable(x) == ~x.nan

(***************************************************************************)
(* initDb: one execSql per step.  Steps 1..5 create the tables, step 6      *)
(* seeds the account, steps 7..14 seed the categories.                      *)
(***************************************************************************)
InitSteps == Len(TableNames) + 1 + Len(seeds)

InitStatement(pc) ==
    IF pc <= Len(TableNames)
    THEN /\ tables' = tables \cup { TableNames[pc] }
         /\ UNCHANGED << accounts, categories, seq >>
    ELSE IF pc = Len(TableNames) + 1
    THEN /\ InsertOrIgnoreAccount(DefaultAccount)
         /\ UNCHANGED << tables, categories >>
    ELSE LET sd == seeds[pc - Len(TableNames) - 1]
         IN  /\ InsertOrIgnoreCategory(sd[1], sd[2], sd[3])
             /\ UNCHANGED << tables, accounts >>

(***************************************************************************)
(* Queries.                                                                 *)
(***************************************************************************)
\* the order of two sort keys <<major, minor>>
KeyLeq(p, q) == p[1] < q[1] \/ (p[1] = q[1] /\ p[2] <= q[2])

\* the rows of S in the order of a key <<major, minor>> that is unique in S
RECURSIVE SortBy(_, _)
SortBy(S, key) ==
    IF S = {} THEN << >>
    ELSE LET r == CHOOSE x \in S : \A y \in S : KeyLeq(key[x], key[y])
         IN  << r >> \o SortBy(S \ {r}, key)

\* a table scan: the rows in rowid order
ById(S) == SortBy(S, [r \in S |-> << r.id, 0 >>])

\* getSetting(key, def)
GetSetting(key, def) ==
    LET rows == { r \in settings : r.skey = key }
    IN  IF rows # {} THEN (CHOOSE r \in rows : TRUE).svalue ELSE def

\* c.is_fixed of LEFT JOIN categories c ON c.id = t.category_id
CatFixed(t) ==
    LET cs == { c \in categories : c.id = t.category_id }
    IN  IF cs = {} THEN NULL ELSE (CHOOSE c \in cs : TRUE).is_fixed

\* c.name of the same join (<< >> for NULL)
CatName(id) ==
    LET cs == { c \in categories : c.id = id }
    IN  IF cs = {} THEN << >> ELSE (CHOOSE c \in cs : TRUE).name

\* WHERE tdate >= ? AND tdate <= ?
InMonth(t, range) == t.tdate >= range.start /\ t.tdate <= range.end

RowsInMonth(txs) == { t \in txs : InMonth(t, GetMonthRangeISO) }

MonthRows == RowsInMonth(transactions)

ZeroTotals == [income |-> 0, expense |-> 0, fixedSpent |-> 0, variableSpent |-> 0]

\* a turn that leaves an expense of no category row out of variableSpent
AddRowOfCategoryOnly(acc, row) ==
    LET v == Abs(row.amount)
        a1 == IF row.kind = "income"
              THEN [acc EXCEPT !.income = FAdd(@, row.amount)]
              ELSE acc
    IN  IF row.kind = "expense"
        THEN IF CatFixed(row) = 1
             THEN [a1 EXCEPT !.expense = FAdd(@, v), !.fixedSpent = FAdd(@, v)]
             ELSE IF \E c \in categories : c.id = row.category_id
             THEN [a1 EXCEPT !.expense = FAdd(@, v), !.variableSpent = FAdd(@, v)]
             ELSE [a1 EXCEPT !.expense = FAdd(@, v)]
        ELSE a1

\* one turn of the loop of monthSummary over row
AddRow(acc, row) ==
    LET v == Abs(row.amount)
        a1 == IF row.kind = "income"
              THEN [acc EXCEPT !.income = FAdd(@, row.amount)]
              ELSE acc
    IN  IF row.kind = "expense"
        THEN IF CatFixed(row) = 1
             THEN [a1 EXCEPT !.expense = FAdd(@, v), !.fixedSpent = FAdd(@, v)]
             ELSE [a1 EXCEPT !.expense = FAdd(@, v), !.variableSpent = FAdd(@, v)]
        ELSE a1

RECURSIVE Totals(_, _)
Totals(rows, acc) ==
    IF rows = << >> THEN acc ELSE Totals(Tail(rows), AddRow(acc, Head(rows)))

\* parseFloat(await getSetting("fixed_monthly_budget", "0")) || 0
BudgetY ==
    LET y == ParseFloat(GetSetting("fixed_monthly_budget", T("0")))
    IN  IF Falsy(y) THEN 0 ELSE y.v

MathMax(a, b) == IF a >= b THEN a ELSE b

\* income - Y with no floor at 0
VariableBudgetUnclamped(income, Y) == FSub(income, Y)

\* Math.max(0, income - Y)
VariableBudget(income, Y) == MathMax(0, FSub(income, Y))

\* the object monthSummary() resolves to
monthSummary ==
    LET t == Totals(ById(MonthRows), ZeroTotals)
        Y == BudgetY
        variableBudget == VariableBudget(t.income, Y)
    IN  [ income |-> t.income,
          expense |-> t.expense,
          savings |-> FSub(t.income, t.expense),
          Y |-> Y,
          fixedSpent |-> t.fixedSpent,
          variableSpent |-> t.variableSpent,
          variableBudget |-> variableBudget,
          variableRemaining |-> FSub(variableBudget, t.variableSpent) ]

\* ORDER BY t.tdate DESC, t.id DESC, as an ascending key
HistKey(r) == << 0 - r.tdate, 0 - r.id >>

\* SELECT t.id, t.tdate, ..., c.name AS category of one row
HistRow(t) ==
    [ id |-> t.id, tdate |-> t.tdate, description |-> t.description,
      amount |-> t.amount, kind |-> t.kind, category |-> CatName(t.category_id) ]

\* the array listMonthTransactions() resolves to when the table holds txs
ListTransactions(txs) ==
    LET joined == { HistRow(t) : t \in RowsInMonth(txs) }
    IN  SortBy(joined, [r \in joined |-> HistKey(r)])

listMonthTransactions == ListTransactions(transactions)

\* ORDER BY day of Fixos.load (rows of one day in rowid order)
DayKey(r) == << r.day, r.id >>

\* the array Fixos.load puts in items when the table holds rows
ItemsOf(rows) == SortBy(rows, [r \in rows |-> DayKey(r)])

LoadItems == ItemsOf(fixed_items)

(***************************************************************************)
(* What a handler leaves behind for the observer: which handler ran, the    *)
(* texts it read from its form, and how it ended:                           *)
(*   "ok"        ran to its end (with the "OK" alert where it has one)      *)
(*   "notice"    Alert.alert("Atenção", ...) and return                     *)
(*   "return"    a silent return                                            *)
(*   "rejected"  its promise rejected (a statement failed, or item(0) of    *)
(*               an empty result was read)                                  *)
(***************************************************************************)
Form(desc, val, day, tdate, k) ==
    [desc |-> desc, val |-> val, day |-> day, tdate |-> tdate, k |-> k]

NoForm == Form(<< >>, << >>, << >>, 0, 0)

Ran(op, out, form) == [op |-> op, out |-> out, form |-> form]

Has(ts) == ts \subseteq tables

\* acc.rows.item(0).id can be read
HasDefaultAccount == Has({"accounts"}) /\ AccountsNamed(DefaultAccount) # {}

DefaultAccountId == (CHOOSE a \in AccountsNamed(DefaultAccount) : TRUE).id

(***************************************************************************)
(* App: the tab bar.  Pressing a tab mounts its screen, whose mount effect  *)
(* loads its state; the state of the screen left is dropped.                *)
(***************************************************************************)
Tabs == {"dash", "add", "cat", "fix", "hist", "cfg"}

CanSummarise == Has({"transactions", "categories", "settings"})

CanList == Has({"transactions", "accounts", "categories"})

CanLoadItems == Has({"fixed_items", "categories"})

MountOk(t) ==
    CASE t = "dash" -> CanSummarise
      [] t = "fix"  -> CanLoadItems
      [] t = "hist" -> CanList
      [] t = "cfg"  -> Has({"settings"})
      [] OTHER      -> Has({"categories"})

Mount(t) ==
    /\ tab' = t
    /\ sum' = IF t = "dash" /\ CanSummarise THEN << monthSummary >> ELSE << >>
    /\ items' = IF t = "fix" /\ CanLoadItems THEN LoadItems ELSE << >>
    /\ hist' = IF t = "hist" /\ CanList THEN listMonthTransactions ELSE << >>

SetTab(t) ==
    /\ t # tab
    /\ Mount(t)
    /\ last' = Ran("setTab", IF MountOk(t) THEN "ok" ELSE "rejected", NoForm)
    /\ mounting' = FALSE
    /\ UNCHANGED << now, tz, storeVars, initPc, initRuns >>

(***************************************************************************)
(* Dashboard                                                                *)
(***************************************************************************)
DashboardRefresh ==
    /\ tab = "dash"
    /\ IF CanSummarise
       THEN /\ sum' = << monthSummary >>
            /\ last' = Ran("refresh", "ok", NoForm)
       ELSE /\ sum' = sum
            /\ last' = Ran("refresh", "rejected", NoForm)
    /\ UNCHANGED << now, tz, storeVars, initPc, initRuns, tab, items, hist, mounting >>

(***************************************************************************)
(* QuickAdd                                                                 *)
(***************************************************************************)
\* the amount as typed, its sign not made to follow the kind
SignedAmountAsTyped(kind, amount) == amount

\* kind === "expense" ? -Math.abs(amount) : Math.abs(amount)
SignedAmount(kind, amount) ==
    IF kind = "expense" THEN Neg(MathAbs(amount)) ELSE MathAbs(amount)

\* the row QuickAdd.submit inserts
SubmitRow(desc, amount, kind, cat) ==
    NewTransaction(seq.transactions + 1, ToISODate(now), Trim(desc),
                   SignedAmount(kind, amount).v, kind, DefaultAccountId,
                   IF cat # << >> THEN CategoryIdOf(cat) ELSE NULL, << >>)

\* Number(String(val).replace(",", ".") || 0)
FormAmount(val) == StrToNumber(ReplaceComma(val))

SubmitInvalid(desc, amount) == Falsy(amount) \/ Trim(desc) = << >>

QuickAddSubmit(desc, val, kind, cat) ==
    LET amount == FormAmount(val)
        form == Form(desc, val, << >>, 0, 0)
    IN  /\ tab = "add"
        /\ IF SubmitInvalid(desc, amount)
           THEN /\ last' = Ran("submit", "notice", form)
                /\ UNCHANGED storeVars
           ELSE IF ~(HasDefaultAccount /\ Has({"categories", "transactions"}))
           THEN /\ last' = Ran("submit", "rejected", form)
                /\ UNCHANGED storeVars
           ELSE /\ seq.transactions < MaxTx
                /\ transactions' = transactions \cup { SubmitRow(desc, amount, kind, cat) }
                /\ seq' = [seq EXCEPT !.transactions = @ + 1]
                /\ last' = Ran("submit", "ok", form)
                /\ UNCHANGED << tables, accounts, categories, fixed_items, settings >>
        /\ UNCHANGED << now, tz, initPc, initRuns, tab, items, sum, hist, mounting >>

(***************************************************************************)
(* Categories                                                               *)
(***************************************************************************)
CategoriesSave(name, kind, isFixed) ==
    /\ tab = "cat"
    /\ IF Trim(name) = << >>
       THEN /\ last' = Ran("save", "return", Form(name, << >>, << >>, 0, 0))
            /\ UNCHANGED storeVars
       ELSE IF ~Has({"categories"})
       THEN /\ last' = Ran("save", "rejected", Form(name, << >>, << >>, 0, 0))
            /\ UNCHANGED storeVars
       ELSE /\ seq.categories < Len(seeds) + MaxCatSaves
            /\ InsertOrReplaceCategory(Trim(name), kind, IF isFixed THEN 1 ELSE 0)
            /\ last' = Ran("save", "ok", Form(name, << >>, << >>, 0, 0))
            /\ UNCHANGED << tables, accounts, transactions, fixed_items, settings >>
    /\ UNCHANGED << now, tz, initPc, initRuns, tab, items, sum, hist, mounting >>

(***************************************************************************)
(* Config                                                                   *)
(***************************************************************************)
\* INSERT ... ON CONFLICT(skey) DO UPDATE SET svalue = excluded.svalue
SetSetting(key, val) ==
    settings' = { r \in settings : r.skey # key } \cup { [skey |-> key, svalue |-> val] }

ConfigSave(y) ==
    /\ tab = "cfg"
    /\ IF Has({"settings"})
       THEN /\ SetSetting("fixed_monthly_budget", IF y = << >> THEN T("0") ELSE y)
            /\ last' = Ran("config", "ok", Form(<< >>, y, << >>, 0, 0))
       ELSE /\ settings' = settings
            /\ last' = Ran("config", "rejected", Form(<< >>, y, << >>, 0, 0))
    /\ UNCHANGED << now, tz, tables, accounts, categories, transactions,
                    fixed_items, seq, initPc, initRuns, tab, items, sum, hist, mounting >>

(***************************************************************************)
(* Fixos                                                                    *)
(***************************************************************************)
\* if (amount <= 0): false for NaN
NotPositive(amount) == ~amount.nan /\ amount.v <= 0

AddInvalid(name, val, day) == Trim(name) = << >> \/ val = << >> \/ day = << >>

FixosAdd(name, val, day, cat) ==
    LET amount == FormAmount(val)
        d == ParseInt(day)
        form == Form(name, val, day, 0, 0)
    IN  /\ tab = "fix"
        /\ IF AddInvalid(name, val, day) \/ NotPositive(amount)
           THEN /\ last' = Ran("add", "notice", form)
                /\ items' = items
                /\ UNCHANGED storeVars
           ELSE IF ~Has({"categories", "fixed_items"}) \/ ~Bindable(amount) \/ ~Bindable(d)
           THEN /\ last' = Ran("add", "rejected", form)
                /\ items' = items
                /\ UNCHANGED storeVars
           ELSE /\ Cardinality(fixed_items) < MaxFixed
                /\ fixed_items' = fixed_items \cup
                       { [ id |-> seq.fixed_items + 1, name |-> Trim(name),
                           amount |-> amount.v, day |-> d.v,
                           category_id |-> CategoryIdOf(cat) ] }
                /\ seq' = [seq EXCEPT !.fixed_items = @ + 1]
                /\ items' = ItemsOf(fixed_items')
                /\ last' = Ran("add", "ok", form)
                /\ UNCHANGED << tables, accounts, categories, transactions, settings >>
        /\ UNCHANGED << now, tz, initPc, initRuns, tab, sum, hist, mounting >>

\* no note, as QuickAdd writes it
GeneratedNoteNone == << >>

\* the note generateMonth writes
GeneratedNote == T("fixo")

\* the row with the template's amount as stored, not negated
GeneratedRowAsStored(it, k) ==
    NewTransaction(seq.transactions + k,
                   DateString(GetFullYear(now), GetMonth(now) + 1, it.day),
                   it.name, it.amount, "expense", DefaultAccountId,
                   it.category_id, GeneratedNote)

\* the row generateMonth inserts for it, the k-th of items
GeneratedRow(it, k) ==
    NewTransaction(seq.transactions + k,
                   DateString(GetFullYear(now), GetMonth(now) + 1, it.day),
                   it.name, 0 - Abs(it.amount), "expense", DefaultAccountId,
                   it.category_id, GeneratedNote)

\* the rows of the first n turns, less those the month already holds
GeneratedRowsOnce(n) ==
    { r \in { GeneratedRow(items[k], k) : k \in 1..n } :
        ~\E t \in transactions :
            /\ t.tdate = r.tdate
            /\ t.description = r.description
            /\ t.note = r.note }

\* the rows of the first n turns of the loop of generateMonth
GeneratedRows(n) == { GeneratedRow(items[k], k) : k \in 1..n }

\* a pass run as one transaction: a rejected insert rolls the pass back
CommittedAllOrNothing(failAt) == IF failAt = 0 THEN Len(items) ELSE 0

\* the turns of the loop that committed their insert: each execSql is its
\* own transaction, and the first rejection ends the loop
Committed(failAt) == IF failAt = 0 THEN Len(items) ELSE failAt - 1

\* failAt = 0: every insert succeeds; failAt = k: the store rejects the k-th
GenerateMonth(failAt) ==
    LET done == Committed(failAt)
    IN  /\ tab = "fix"
        /\ failAt \in 0..Len(items)
        /\ IF ~(HasDefaultAccount /\ Has({"transactions"}))
           THEN /\ failAt = 0
                /\ last' = Ran("generateMonth", "rejected", NoForm)
                /\ UNCHANGED storeVars
           ELSE /\ seq.transactions + done <= MaxTx
                /\ transactions' = transactions \cup GeneratedRows(done)
                /\ seq' = [seq EXCEPT !.transactions = @ + done]
                /\ last' = Ran("generateMonth",
                               IF failAt = 0 THEN "ok" ELSE "rejected",
                               Form(<< >>, << >>, << >>, 0, failAt))
                /\ UNCHANGED << tables, accounts, categories, fixed_items, settings >>
        /\ UNCHANGED << now, tz, initPc, initRuns, tab, items, sum, hist, mounting >>

(***************************************************************************)
(* Historico                                                                *)
(***************************************************************************)
\* DELETE FROM transactions WHERE id = ?
HistoricoDelete(it) ==
    /\ tab = "hist"
    /\ transactions' = { t \in transactions : t.id # it.id }
    /\ UNCHANGED << now, tz, tables, accounts, categories, fixed_items, settings,
                    seq, initPc, initRuns, tab, items, sum, mounting >>
    /\ hist' = ListTransactions(transactions')
    /\ last' = Ran("delete", "ok", NoForm)

\* Number(e.amount || 0): e.amount is the number startEdit put there, or
\* the text typed over it
EditAmount(it, edited, val) ==
    IF edited THEN StrToNumber(val) ELSE Num(it.amount)

\* an update that leaves category_id as it is when no category id is given
UpdatedRowKeepingCategory(t, tdate, description, amount, kind, accId, catId) ==
    [t EXCEPT !.tdate = tdate, !.description = description, !.amount = amount,
              !.kind = kind, !.account_id = accId,
              !.category_id = IF catId = NULL THEN @ ELSE catId]

\* UPDATE transactions SET ... WHERE id = ?
UpdatedRow(t, tdate, description, amount, kind, accId, catId) ==
    [t EXCEPT !.tdate = tdate, !.description = description, !.amount = amount,
              !.kind = kind, !.account_id = accId, !.category_id = catId]

\* updateTransaction({id, tdate, description, amount, kind, categoryName})
updateTransaction(id, tdate, description, amount, kind, categoryName) ==
    LET catId == IF categoryName # << >> THEN CategoryIdOf(categoryName) ELSE NULL
    IN  transactions' =
            { IF t.id = id
              THEN UpdatedRow(t, tdate, description, amount, kind,
                              DefaultAccountId, catId)
              ELSE t : t \in transactions }

EditInvalid(description, tdate) == description = << >> \/ tdate = 0

\* saveEdit with editing = startEdit(it) changed by the form: description,
\* tdate, kind and category as given, amount typed as val when edited
HistoricoSaveEdit(it, description, tdate, edited, val, kind, category) ==
    LET amt == SignedAmount(kind, EditAmount(it, edited, val))
        form == Form(description, IF edited THEN val ELSE << >>, << >>, tdate, it.id)
    IN  /\ tab = "hist"
        /\ UNCHANGED << now, tz, initPc, initRuns, tab, items, sum, mounting >>
        /\ IF EditInvalid(description, tdate)
           THEN /\ last' = Ran("saveEdit", "notice", form)
                /\ hist' = hist
                /\ UNCHANGED storeVars
           ELSE IF ~(HasDefaultAccount /\ Has({"categories", "transactions"}))
                   \/ ~Bindable(amt)
           THEN /\ last' = Ran("saveEdit", "rejected", form)
                /\ hist' = hist
                /\ UNCHANGED storeVars
           ELSE /\ updateTransaction(it.id, tdate, Trim(description), amt.v, kind,
                                     category)
                /\ UNCHANGED << tables, accounts, categories, fixed_items,
                                settings, seq >>
                /\ hist' = ListTransactions(transactions')
                /\ last' = Ran("saveEdit", "ok", form)

(***************************************************************************)
(* App launch and initDb.  The App effect calls initDb() without awaiting   *)
(* it; Dashboard, the first screen, starts its own refresh at mount.        *)
(***************************************************************************)
Launch ==
    /\ initRuns < MaxLaunches
    /\ initPc' = 1
    /\ tab' = "dash"
    /\ sum' = << >>
    /\ items' = << >>
    /\ hist' = << >>
    /\ mounting' = TRUE
    /\ last' = Ran("launch", "ok", NoForm)
    /\ UNCHANGED << now, tz, storeVars, initRuns >>

\* the next execSql of the running initDb
InitDbStep ==
    /\ initPc \in 1..InitSteps
    /\ InitStatement(initPc)
    /\ initPc' = IF initPc = InitSteps THEN 0 ELSE initPc + 1
    /\ initRuns' = IF initPc = InitSteps THEN initRuns + 1 ELSE initRuns
    /\ last' = Ran("initDb", "ok", Form(<< >>, << >>, << >>, 0, initPc))
    /\ UNCHANGED << now, tz, transactions, fixed_items, settings, tab, items,
                    sum, hist, mounting >>

\* the query of the refresh Dashboard started at mount reaches the store
DashboardMounted ==
    /\ mounting
    /\ tab = "dash"
    /\ mounting' = FALSE
    /\ IF CanSummarise
       THEN /\ sum' = << monthSummary >>
            /\ last' = Ran("mount", "ok", NoForm)
       ELSE /\ sum' = sum
            /\ last' = Ran("mount", "rejected", NoForm)
    /\ UNCHANGED << now, tz, storeVars, initPc, initRuns, tab, items, hist >>

(***************************************************************************)
(* Initial states.                                                          *)
(***************************************************************************)
\* the instant of hour h (UTC) of day d of month m (0..11) of year y
Instant(y, m, d, h) == DayNumber(y, m, d) * 24 + h

\* the store after the first initDb of a fresh install
SeededAccounts == { [id |-> 1, name |-> DefaultAccount] }

SeededCategories ==
    { [id |-> i, name |-> seeds[i][1], kind |-> seeds[i][2], is_fixed |-> seeds[i][3]] :
        i \in 1..Len(seeds) }

SeededSeq ==
    [accounts |-> 1, categories |-> Len(seeds), transactions |-> 0, fixed_items |-> 0]

AllTables == { TableNames[i] : i \in 1..Len(TableNames) }

\* a fresh install at its first launch: finance.db is empty
FreshInstall ==
    /\ tables = {}
    /\ accounts = {}
    /\ categories = {}
    /\ transactions = {}
    /\ fixed_items = {}
    /\ settings = {}
    /\ seq = [accounts |-> 0, categories |-> 0, transactions |-> 0, fixed_items |-> 0]
    /\ initPc = 1
    /\ initRuns = 0
    /\ tab = "dash"
    /\ items = << >>
    /\ sum = << >>
    /\ hist = << >>
    /\ mounting = TRUE
    /\ last = Ran("launch", "ok", NoForm)

\* the app with its initDb completed and Dashboard showing "Carregando...",
\* the transactions table holding the rows txs (ids 1..n)
Installed(txs) ==
    /\ tables = AllTables
    /\ accounts = SeededAccounts
    /\ categories = SeededCategories
    /\ transactions = txs
    /\ fixed_items = {}
    /\ settings = {}
    /\ seq = [SeededSeq EXCEPT !.transactions = Cardinality(txs)]
    /\ initPc = 0
    /\ initRuns = 1
    /\ tab = "dash"
    /\ items = << >>
    /\ sum = << >>
    /\ hist = << >>
    /\ mounting = FALSE
    /\ last = Ran("initDb", "ok", Form(<< >>, << >>, << >>, 0, InitSteps))

\* the app once the first initDb of a fresh install has completed
Seeded == Installed({})

(***************************************************************************)
(* The forms' inputs.                                                       *)
(***************************************************************************)
\* description and name fields: empty, blank, and a word after a blank
DescTexts == { << >>, << " " >>, << " ", "a" >> }

\* amount fields of QuickAdd and Fixos: empty, zero, not a number, -,5
ValTexts == { << >>, << "0" >>, << "x" >>, << "-", ",", "5" >> }

\* the amount field of Historico: zero, not a number, .5
EditTexts == { << "0" >>, << "x" >>, << ".", "5" >> }

\* day fields: empty, 5, not a number
DayTexts == { << >>, << "5" >>, << "x" >> }

\* fixed_monthly_budget typed in Config: empty, 5.5, 99, -5, not a number
BudgetTexts ==
    { << >>, << "5", ".", "5" >>, << "9", "9" >>, << "-", "5" >>, << "x" >> }

Kinds == {"expense", "income"}

\* the rows Historico renders
Listed == { hist[i] : i \in 1..Len(hist) }

Edit(description, tdate, val, kind, category) ==
    [ description |-> description, tdate |-> tdate, val |-> val, kind |-> kind,
      category |-> category ]

\* what the edit form of row it may hold at "Salvar": the row as startEdit
\* copied it (val << >>: amount not typed over) with the kind pressed, with
\* the description or the date cleared, or with an amount typed
Edits(it) ==
    { Edit(it.description, it.tdate, << >>, k, it.category) : k \in Kinds }
    \cup { Edit(<< >>, it.tdate, << >>, it.kind, it.category),
           Edit(it.description, 0, << >>, it.kind, it.category) }
    \cup { Edit(it.description, it.tdate, v, it.kind, it.category) : v \in EditTexts }

\* what the forms of QuickAdd may hold at "Adicionar": every amount text
\* with a description, every description text with a valid amount
SubmitForms ==
    { << << " ", "a" >>, v >> : v \in ValTexts }
    \cup { << d, << "-", ",", "5" >> >> : d \in DescTexts }

\* what the form of Fixos may hold at "Adicionar item fixo": name, amount
\* and day, at most one of them not the valid one
AddForms ==
    { << n, << "-", ",", "5" >>, << "5" >> >> : n \in DescTexts }
    \cup { << << " ", "a" >>, v, << "5" >> >> : v \in ValTexts \cup {<< "5" >>} }
    \cup { << << " ", "a" >>, << "5" >>, d >> : d \in DayTexts }

(***************************************************************************)
(* Spec: the ledger.  The app after installation, at one instant, with the  *)
(* screens that write transactions and fixed items: Lançar, Fixos and       *)
(* Histórico.                                                               *)
(***************************************************************************)
Init ==
    /\ now = Instant(2024, 2, 15, 12)
    /\ tz = -3
    /\ Seeded

Next ==
    \/ \E t \in {"add", "fix", "hist"} : SetTab(t)
    \/ \E f \in SubmitForms, kind \in Kinds :
           QuickAddSubmit(f[1], f[2], kind, T("Mercado"))
    \/ \E f \in AddForms : FixosAdd(f[1], f[2], f[3], T("Mercado"))
    \/ \E failAt \in 0..Len(items) : GenerateMonth(failAt)
    \/ \E it \in Listed :
           \E e \in Edits(it) :
               HistoricoSaveEdit(it, e.description, e.tdate, e.val # << >>, e.val,
                                 e.kind, e.category)

Spec == Init /\ [][Next]_vars

(***************************************************************************)
(* Properties of the ledger (Spec).                                         *)
(***************************************************************************)
\* the step was handler op
Did(op) == last'.op = op

NewRows == transactions' \ transactions

OtherTablesUnchanged ==
    UNCHANGED << tables, accounts, categories, fixed_items, settings >>

\* C1: every stored transaction of kind expense has amount <= 0 and every
\* stored transaction of kind income has amount >= 0, whatever QuickAdd
\* submit, generateMonth and saveEdit have done
C1_SignInvariant ==
    \A t \in transactions :
        /\ t.kind = "expense" => t.amount <= 0
        /\ t.kind = "income" => t.amount >= 0

\* C1 witness: saveEdit has turned a generated expense into an income, and
\* an expense typed with a sign is stored beside it
C1_Witness ==
    /\ last.op = "saveEdit"
    /\ last.out = "ok"
    /\ \E t \in transactions :
           t.note = GeneratedNote /\ t.kind = "income" /\ t.amount > 0
    /\ \E t \in transactions :
           t.note = << >> /\ t.kind = "expense" /\ t.amount < 0

\* row r is the transaction generateMonth makes of template f
FromTemplate(r, f) ==
    /\ r.kind = "expense"
    /\ r.amount = 0 - Abs(f.amount)
    /\ r.description = f.name
    /\ r.category_id = f.category_id
    /\ r.account_id = DefaultAccountId

\* templates that differ in their id (and day) only
Alike(f, g) ==
    f.name = g.name /\ f.amount = g.amount /\ f.category_id = g.category_id

\* C5: a successful generateMonth pass over the N stored (and loaded)
\* templates inserts exactly N transactions, one per template, each an
\* expense of amount -abs(template amount) with the template's name and
\* category on the default account; the transactions there before and all
\* other tables are unchanged
C5_ExpansionCount ==
    [][ (Did("generateMonth") /\ last'.out = "ok") =>
          /\ items = LoadItems
          /\ transactions \subseteq transactions'
          /\ Cardinality(NewRows) = Cardinality(fixed_items)
          /\ \A r \in NewRows : \E f \in fixed_items : FromTemplate(r, f)
          /\ \A f \in fixed_items :
                 Cardinality({ r \in NewRows : FromTemplate(r, f) })
                     = Cardinality({ g \in fixed_items : Alike(f, g) })
          /\ OtherTablesUnchanged ]_vars

\* C5 witness: a pass over two templates has succeeded
C5_Witness ==
    /\ last.op = "generateMonth"
    /\ last.out = "ok"
    /\ Cardinality(fixed_items) = 2
    /\ Cardinality({ t \in transactions : t.note = GeneratedNote }) = 2

\* the notes of the rows a step inserts, and of the rows it keeps
InsertsNote(op, note) == Did(op) => \A r \in NewRows : r.note = note

NeverInsertsNote(op, note) == Did(op) => \A r \in NewRows : r.note # note

KeepsNotes ==
    \A r \in transactions, r2 \in transactions' : r.id = r2.id => r.note = r2.note

\* C6 as claimed: every transaction generateMonth inserts carries the note
\* "fixed", and no transaction QuickAdd inserts carries it
C6_NoteFixed ==
    [][ /\ InsertsNote("generateMonth", T("fixed"))
        /\ NeverInsertsNote("submit", T("fixed")) ]_vars

\* C6 amended: every transaction generateMonth inserts carries the note
\* "fixo", no transaction QuickAdd inserts carries it, and no handler
\* changes the note of a stored transaction
C6_NoteFixo ==
    [][ /\ InsertsNote("generateMonth", T("fixo"))
        /\ NeverInsertsNote("submit", T("fixo"))
        /\ KeepsNotes ]_vars

\* C6 witness: the table holds a generated row and a QuickAdd row
C6_Witness ==
    /\ \E t \in transactions : t.note = T("fixo") /\ t.description = T("a")
    /\ \E t \in transactions : t.note = << >>
    /\ last.op = "submit"

\* the rows of the pass that has just succeeded: the last N inserted
LastPass == { t \in transactions : t.id > seq.transactions - Len(items) }

\* C7: a second generateMonth pass straight after a first one adds a full
\* duplicate set: the store then holds 2*N generated rows, those of the
\* second pass equal to those of the first in everything but the id
C7_NonIdempotent ==
    [][ ( /\ last.op = "generateMonth" /\ last.out = "ok"
          /\ Did("generateMonth") /\ last'.out = "ok" ) =>
          /\ Cardinality(LastPass) = Len(items)
          /\ Cardinality(NewRows) = Len(items)
          /\ Cardinality(LastPass \cup NewRows) = 2 * Cardinality(fixed_items)
          /\ transactions' = transactions \cup NewRows
          /\ \A r \in LastPass :
                 [r EXCEPT !.id = r.id + Len(items)] \in NewRows ]_vars

\* C7 witness: two passes over one template have left two rows that differ
\* in the id only
C7_Witness ==
    /\ last.op = "generateMonth"
    /\ last.out = "ok"
    /\ Len(items) = 1
    /\ \E r1 \in transactions, r2 \in transactions :
           /\ r1.id # r2.id
           /\ r1.note = GeneratedNote
           /\ [r1 EXCEPT !.id = r2.id] = r2

\* the input the step's handler read is invalid: an empty description or
\* name, an amount that is not a number or is zero, or no day for a fixed
\* item
EmptyText(s) == Trim(s) = << >>

BadAmount(x) == x.nan \/ x.v = 0

InvalidInput(l) ==
    CASE l.op = "submit" ->
             EmptyText(l.form.desc) \/ BadAmount(FormAmount(l.form.val))
      [] l.op = "add" ->
             \/ EmptyText(l.form.desc)
             \/ BadAmount(FormAmount(l.form.val))
             \/ l.form.day = << >>
      [] l.op = "saveEdit" ->
             \/ EmptyText(l.form.desc)
             \/ (l.form.val # << >> /\ BadAmount(StrToNumber(l.form.val)))
      [] OTHER -> FALSE

\* C8: QuickAdd submit, Fixos add and Historico saveEdit answer an invalid
\* input with a notice and leave every table unchanged
C8_ValidationAborts ==
    [][ InvalidInput(last') => (last'.out = "notice" /\ UNCHANGED storeVars) ]_vars

\* C10: when the store rejects the insert of the k-th template, the rows of
\* templates 1..k-1 stay committed, none is inserted for templates k..N,
\* and the pass ends rejected
C10_NotAtomic ==
    [][ (Did("generateMonth") /\ last'.form.k >= 1) =>
          LET k == last'.form.k
          IN  /\ last'.out = "rejected"
              /\ transactions \subseteq transactions'
              /\ Cardinality(NewRows) = k - 1
              /\ \A j \in 1..(k - 1) :
                     \E r \in NewRows :
                         r.id = seq.transactions + j /\ FromTemplate(r, items[j])
              /\ OtherTablesUnchanged ]_vars

\* C10 witness: the insert of the second of two templates was rejected and
\* the row of the first is in the table
C10_Witness ==
    /\ last.op = "generateMonth"
    /\ last.out = "rejected"
    /\ last.form.k = 2
    /\ \E t \in transactions : t.note = GeneratedNote /\ t.id = seq.transactions

(***************************************************************************)
(* SpecMonth: the month filter.  The installed app at an instant near a     *)
(* month's end, on a device of some timezone, its transactions table        *)
(* holding four incomes dated around the ends of the local month; the       *)
(* screens that filter by month, Dashboard and Histórico, are opened.       *)
(***************************************************************************)
\* the device's timezones: hours east of UTC
Zones == {-12, -3, 0, 1, 9, 14}

\* instants from the 30th of January, the 28th of February, the 29th of
\* April and the 30th of December 2024 (UTC midnight) on, six hours apart
Instants ==
    { Instant(2024, m[1], m[2], 6 * k) :
        m \in { << 0, 30 >>, << 1, 28 >>, << 3, 29 >>, << 11, 30 >> }, k \in 0..NowSteps }

\* the local calendar day of now, and the first and the last day of its
\* month
LocalDay == (now + tz) \div 24

FirstDay == LocalDay - DateOfDay(LocalDay) + 1

LastDay == FirstDay + DaysInMonth(YearOfDay(LocalDay), MonthOfDay(LocalDay)) - 1

\* the string "YYYY-MM-DD" of day n
DayString(n) == DateString(YearOfDay(n), MonthOfDay(n) + 1, DateOfDay(n))

\* an income of id i dated day n; its amount 2^(i-1) tells it in a total
Dated(i, n) ==
    NewTransaction(i, DayString(n), T("a"), Pow2(i - 1), "income", 1, NULL, << >>)

\* incomes dated the day before the first, the first, the last and the day
\* after the last day of the local month
AroundMonth ==
    { Dated(1, FirstDay - 1), Dated(2, FirstDay), Dated(3, LastDay), Dated(4, LastDay + 1) }

InitMonth ==
    /\ now \in Instants
    /\ tz \in Zones
    /\ Installed(AroundMonth)

NextMonth ==
    \/ \E t \in {"dash", "hist"} : SetTab(t)
    \/ DashboardRefresh

SpecMonth == InitMonth /\ [][NextMonth]_vars

\* the ids of the rows Histórico lists
ListedIds == { hist[i].id : i \in 1..Len(hist) }

\* what an exact filter lets through: the rows dated the first and the last
\* day, and neither of the other two
ExactFilter ==
    /\ sum # << >> => sum[1].income = Dated(2, 0).amount + Dated(3, 0).amount
    /\ tab = "hist" => ListedIds = {2, 3}

\* C2: at every instant and in every timezone, monthSummary and
\* listMonthTransactions include the transactions dated the first and the
\* last day of the local month of now, and exclude those dated the day
\* before the first and the day after the last.
C2_MonthFilterExact == ExactFilter

\* where the local midnight falls on the same UTC day (UTC and west of it)
\* the filter is exact
MonthFilterExactWest == tz <= 0 => ExactFilter

\* east of UTC the range is one day early at both ends
MonthFilterEarlyEast ==
    tz > 0 =>
        /\ sum # << >> => sum[1].income = Dated(1, 0).amount + Dated(2, 0).amount
        /\ tab = "hist" => ListedIds = {1, 2}

(***************************************************************************)
(* SpecSummary: the month's summary.  The installed app in mid-March with   *)
(* up to MaxRows transactions of the month in its table; Dashboard, Config  *)
(* and Categorias are used: the budget Y is saved, and the category         *)
(* "Mercado" is saved again, which replaces its row under a new id and      *)
(* leaves the transactions that held the old id with no category row.       *)
(***************************************************************************)
\* what a row of the month may be: an income of 5.0 (amounts are in
\* tenths), an expense of 5.0 of the fixed category 1, of the category 4
\* "Mercado" or of none, or an expense of 5.5 of "Mercado"
RowShapes ==
    { << "income", 50, NULL >>, << "expense", -55, 4 >> }
    \cup { << "expense", -50, c >> : c \in {1, 4, NULL} }

\* the rows of ids 1..Len(shapes), dated the 15th of March
RowsOf(shapes) ==
    { NewTransaction(i, DateString(2024, 3, 15), T("a"), shapes[i][2], shapes[i][1],
                     1, shapes[i][3], << >>) : i \in 1..Len(shapes) }

RowSets ==
    { RowsOf(shapes) : shapes \in UNION { [1..n -> RowShapes] : n \in 0..MaxRows } }

InitSummary ==
    /\ now = Instant(2024, 2, 15, 12)
    /\ tz = -3
    /\ \E txs \in RowSets : Installed(txs)

NextSummary ==
    \/ \E t \in {"dash", "cat", "cfg"} : SetTab(t)
    \/ DashboardRefresh
    \/ \E y \in BudgetTexts : ConfigSave(y)
    \/ \E isFixed \in BOOLEAN : CategoriesSave(T("Mercado"), "expense", isFixed)

SpecSummary == InitSummary /\ [][NextSummary]_vars

\* the expenses of the month, and the exact sum of the magnitudes of rows
Expenses == { t \in MonthRows : t.kind = "expense" }

RECURSIVE Magnitudes(_)
Magnitudes(rows) ==
    IF rows = {} THEN 0
    ELSE LET r == CHOOSE x \in rows : TRUE
         IN  Abs(r.amount) + Magnitudes(rows \ {r})

\* a non-null category_id of no category row
Dangling(t) == t.category_id # NULL /\ ~\E c \in categories : c.id = t.category_id

\* a and b differ by no more than the rounding of the sums of n numbers of
\* total magnitude S can make them differ: 2 * (n / (2^Precision - n)) * S
WithinTolerance(a, b, n, S) == Abs(a - b) * (Pow2(Precision) - n) <= 2 * n * S

\* C3 as stated: savings == income - expense and fixedSpent + variableSpent
\* == expense, the sums and the difference being the numbers' own
C3_BudgetIdentityExact ==
    sum # << >> =>
        /\ sum[1].savings = FSub(sum[1].income, sum[1].expense)
        /\ FAdd(sum[1].fixedSpent, sum[1].variableSpent) = sum[1].expense

\* C3: for every set of in-month transactions (kinds mixed; categories
\* fixed, not fixed, null or dangling) monthSummary returns savings equal to
\* the number income - expense, and fixedSpent + variableSpent equal to
\* expense within floating-point tolerance: each of fixedSpent +
\* variableSpent and expense is a rounded sum of the same magnitudes, so the
\* two differ by at most 2 * n / (2^Precision - n) times the exact total of
\* the n expenses' magnitudes; they need not be equal.
C3_BudgetIdentityWithinTolerance ==
    sum # << >> =>
        /\ sum[1].savings = FSub(sum[1].income, sum[1].expense)
        /\ WithinTolerance(FAdd(sum[1].fixedSpent, sum[1].variableSpent),
                           sum[1].expense, Cardinality(Expenses), Magnitudes(Expenses))
        /\ WithinTolerance(sum[1].expense, Magnitudes(Expenses),
                           Cardinality(Expenses), Magnitudes(Expenses))

\* a summary over a fixed, a dangling and an uncategorised expense whose
\* fixedSpent + variableSpent is not its expense
C3_Witness ==
    /\ sum # << >>
    /\ \E t \in Expenses : CatFixed(t) = 1
    /\ \E t \in Expenses : Dangling(t)
    /\ FAdd(sum[1].fixedSpent, sum[1].variableSpent) # sum[1].expense

\* C4: for every income total and every stored Y, monthSummary returns
\* variableBudget = max(0, income - Y), never negative, and
\* variableRemaining = variableBudget - variableSpent, not clamped.
C4_VariableBudget ==
    sum # << >> =>
        LET s == sum[1]
            d == FSub(s.income, s.Y)
        IN  /\ s.Y = BudgetY
            /\ s.variableBudget = (IF d > 0 THEN d ELSE 0)
            /\ s.variableBudget >= 0
            /\ s.variableRemaining = FSub(s.variableBudget, s.variableSpent)

\* a summary with Y above a positive income: the budget is 0 and what
\* remains of it is negative
C4_Witness ==
    /\ sum # << >>
    /\ sum[1].income > 0
    /\ sum[1].Y > sum[1].income
    /\ sum[1].variableBudget = 0
    /\ sum[1].variableRemaining < 0

(***************************************************************************)
(* SpecSeed: launches.  A fresh install is launched; the app may be closed  *)
(* and launched again at any point, each launch running initDb from its     *)
(* start; between the statements of initDb the user may open Categorias     *)
(* and save "Mercado" as a fixed income or add "Pets".                      *)
(***************************************************************************)
\* what the form of Categorias may hold at "Salvar"
CategoryForms ==
    { << T("Mercado"), "income", TRUE >>, << T("Pets"), "expense", FALSE >> }

InitSeed ==
    /\ now = Instant(2024, 2, 15, 12)
    /\ tz = -3
    /\ FreshInstall

NextSeed ==
    \/ Launch
    \/ InitDbStep
    \/ DashboardMounted
    \/ \E t \in {"dash", "cat"} : SetTab(t)
    \/ \E f \in CategoryForms : CategoriesSave(f[1], f[2], f[3])

SpecSeed == InitSeed /\ [][NextSeed]_vars

SeedNames == { seeds[i][1] : i \in 1..Len(seeds) }

\* one account row named "Conta Padrão" and one category row of each seed
\* name
SeededOnce ==
    /\ Cardinality(AccountsNamed(DefaultAccount)) = 1
    /\ \A n \in SeedNames : Cardinality(CategoriesNamed(n)) = 1

\* a statement of initDb leaves every existing account and category row as
\* it is
InitDbKeepsRows ==
    Did("initDb") => accounts \subseteq accounts' /\ categories \subseteq categories'

\* C9: once initDb has run to its end, however many launches and user
\* operations follow, accounts holds exactly one row named "Conta Padrão"
\* and each of the eight seed names occurs exactly once in categories; and
\* no statement of initDb changes the id, kind or is_fixed of a row that
\* exists.
C9_SeedingIdempotent ==
    /\ [](initRuns >= 1 => SeededOnce)
    /\ [][InitDbKeepsRows]_vars

\* a second initDb has run to its end over a "Mercado" the user saved as a
\* fixed income, and over the user's "Pets"
C9_Witness ==
    /\ initRuns >= 2
    /\ initPc = 0
    /\ last.op = "initDb"
    /\ \/ \E c \in CategoriesNamed(T("Mercado")) :
              c.kind = "income" /\ c.is_fixed = 1 /\ c.id > Len(seeds)
       \/ CategoriesNamed(T("Pets")) # {}

\* C13: in every interleaving of the un-awaited initDb with the mount-time
\* refresh of the Dashboard shown at launch, the monthSummary query reaches
\* the store only once initDb has created the transactions table.
C13_InitialisedBeforeUse ==
    [][ Did("mount") => Has({"transactions"}) ]_vars

\* the first launch is over and Dashboard still shows "Carregando...": its
\* mount-time refresh was rejected and nothing sets sum afterwards
StuckLoading ==
    /\ initRuns = 1
    /\ initPc = 0
    /\ tab = "dash"
    /\ ~mounting
    /\ sum = << >>
    /\ last.op = "initDb"

(***************************************************************************)
(* SpecEdit: Histórico.  The installed app in mid-March, its table holding  *)
(* up to MaxTx expenses of the month, each of a category: typed ones of     *)
(* "Mercado" and generated ones of the fixed category 1.  Histórico is      *)
(* opened; rows are edited, their category kept, changed to a name of no    *)
(* row ("Pets") or cleared, and deleted.                                    *)
(***************************************************************************)
\* amount, category_id and note of a row: typed, or generated
EditShapes == { << -50, 4, << >> >>, << -55, 1, GeneratedNote >> }

EditRowsOf(shapes) ==
    { NewTransaction(i, DateString(2024, 3, 15), T("a"), shapes[i][1], "expense",
                     1, shapes[i][2], shapes[i][3]) : i \in 1..Len(shapes) }

EditRowSets ==
    { EditRowsOf(shapes) : shapes \in UNION { [1..n -> EditShapes] : n \in 0..MaxTx } }

\* the category field of the edit form: a seed's name, a name of no row,
\* empty
CategoryTexts == { T("Mercado"), T("Pets"), << >> }

\* what the edit form of row it may hold at "Salvar" once its category was
\* typed: nothing else changed; or the kind pressed and the date, the
\* description and the amount typed too; or an amount that is no number, or
\* no description
CategoryEdits(it) ==
    { Edit(it.description, it.tdate, << >>, it.kind, c) : c \in CategoryTexts }
    \cup { Edit(<< "b", " " >>, DateString(2024, 3, 16), << ".", "5" >>, "income", T("Pets")),
           Edit(it.description, it.tdate, << "x" >>, it.kind, T("Pets")),
           Edit(<< >>, it.tdate, << >>, it.kind, T("Pets")) }

InitEdit ==
    /\ now = Instant(2024, 2, 15, 12)
    /\ tz = -3
    /\ \E txs \in EditRowSets : Installed(txs)

NextEdit ==
    \/ \E t \in {"dash", "hist"} : SetTab(t)
    \/ \E it \in Listed : HistoricoDelete(it)
    \/ \E it \in Listed :
           \E e \in CategoryEdits(it) :
               HistoricoSaveEdit(it, e.description, e.tdate, e.val # << >>, e.val,
                                 e.kind, e.category)

SpecEdit == InitEdit /\ [][NextEdit]_vars

\* the name is empty or the name of no category row
LookupMiss(name) == name = << >> \/ CategoriesNamed(name) = {}

\* the step is saveEdit of row it with form e
SavesEdit(it, e) ==
    HistoricoSaveEdit(it, e.description, e.tdate, e.val # << >>, e.val, e.kind,
                      e.category)

\* the amount saveEdit hands to updateTransaction
SubmittedAmount(it, e) == SignedAmount(e.kind, EditAmount(it, e.val # << >>, e.val))

\* updateTransaction is reached with an amount that is a number
ReachesUpdate(it, e) ==
    ~EditInvalid(e.description, e.tdate) /\ Bindable(SubmittedAmount(it, e))

\* row t after the update: the submitted values, the default account, no
\* category; its id and note as they were
MissUpdated(t, it, e) ==
    [ id |-> t.id, tdate |-> e.tdate, description |-> Trim(e.description),
      amount |-> SubmittedAmount(it, e).v, kind |-> e.kind,
      account_id |-> DefaultAccountId, category_id |-> NULL, note |-> t.note ]

\* C11: an update whose categoryName is empty or matches no category row
\* succeeds: the target row takes the submitted tdate, description, amount
\* and kind, the default account and a null category_id; its note and every
\* other transaction are left as they were.
C11_LookupMissLenient ==
    [][ Did("saveEdit") =>
          \A it \in { r \in Listed : r.id = last'.form.k } :
              \A e \in CategoryEdits(it) :
                  (LookupMiss(e.category) /\ ReachesUpdate(it, e) /\ SavesEdit(it, e)) =>
                      /\ last'.out = "ok"
                      /\ transactions' =
                             { IF t.id = it.id THEN MissUpdated(t, it, e) ELSE t :
                                 t \in transactions }
                      /\ OtherTablesUnchanged ]_vars

\* a generated row, edited with a category of no row next to a new date,
\* description and amount, is stored with no category and its note
C11_Witness ==
    /\ last.op = "saveEdit"
    /\ last.out = "ok"
    /\ \E t \in transactions :
           /\ t.id = last.form.k
           /\ t.category_id = NULL
           /\ t.note = GeneratedNote
           /\ t.tdate = DateString(2024, 3, 16)
           /\ t.description = << "b" >>
           /\ t.kind = "income"
           /\ t.amount = 5
    /\ \E t \in transactions : t.id # last.form.k /\ t.category_id # NULL

(***************************************************************************)
(* SpecCategories: categories and what refers to them.  The installed app;  *)
(* expenses and fixed items of "Mercado" are added, generated and edited,   *)
(* and "Mercado" is saved again in Categorias, as fixed or not.             *)
(***************************************************************************)
InitCategories ==
    /\ now = Instant(2024, 2, 15, 12)
    /\ tz = -3
    /\ Seeded

NextCategories ==
    \/ \E t \in Tabs : SetTab(t)
    \/ DashboardRefresh
    \/ QuickAddSubmit(<< " ", "a" >>, << "-", ",", "5" >>, "expense", T("Mercado"))
    \/ FixosAdd(<< " ", "a" >>, << "5" >>, << "5" >>, T("Mercado"))
    \/ GenerateMonth(0)
    \/ \E it \in Listed :
           HistoricoSaveEdit(it, it.description, it.tdate, FALSE, << >>, it.kind,
                             T("Mercado"))
    \/ \E isFixed \in BOOLEAN : CategoriesSave(T("Mercado"), "expense", isFixed)

SpecCategories == InitCategories /\ [][NextCategories]_vars

\* category_id is null or the id of a category row
RefersToCategory(r) == r.category_id = NULL \/ \E c \in categories : c.id = r.category_id

\* C12: whatever QuickAdd submit, Fixos add, generateMonth, updateTransaction
\* and Categories save have done, every non-null category_id of a
\* transaction or of a fixed item is the id of a category row.
C12_CategoryReferencesValid ==
    \A r \in transactions \cup fixed_items : RefersToCategory(r)

\* an expense recorded under "Mercado" is summed as variable while the only
\* "Mercado" there is is fixed
SummedAgainstCategory ==
    /\ sum # << >>
    /\ sum[1].variableSpent > 0
    /\ \A c \in CategoriesNamed(T("Mercado")) : c.is_fixed = 1

(***************************************************************************)
(* SpecToday: a transaction added now.  The installed app with an empty     *)
(* transactions table, at an instant near a month's end on a device of      *)
(* some timezone; transactions are added in Lançar and Dashboard is opened, *)
(* all at that instant.                                                     *)
(***************************************************************************)
InitToday ==
    /\ now \in Instants
    /\ tz \in Zones
    /\ Seeded

NextToday ==
    \/ \E t \in {"dash", "add"} : SetTab(t)
    \/ DashboardRefresh
    \/ \E kind \in Kinds :
           QuickAddSubmit(<< " ", "a" >>, << "-", ",", "5" >>, kind, T("Mercado"))

SpecToday == InitToday /\ [][NextToday]_vars

\* the stored rows of a kind
OfKind(k) == { t \in transactions : t.kind = k }

\* C14: at every instant and in every timezone, the tdate QuickAdd submit
\* stores lies inside the range getMonthRangeISO computes at that instant,
\* and a monthSummary taken then counts every transaction just added in
\* income or expense.
C14_JustAddedCounted ==
    /\ \A t \in transactions : InMonth(t, GetMonthRangeISO)
    /\ sum # << >> =>
           /\ sum[1].income = 5 * Cardinality(OfKind("income"))
           /\ sum[1].expense = 5 * Cardinality(OfKind("expense"))

\* where the UTC day of now is a day of the range, the transaction is
\* counted: the range is the local month west of UTC and in UTC, and the
\* local month moved one day back east of it
CountedWhereInRange ==
    (GetMonthRangeISO.start <= ToISODate(now) /\ ToISODate(now) <= GetMonthRangeISO.end)
        => C14_JustAddedCounted

\* a summary that leaves out the transaction just added
JustAddedLeftOut ==
    /\ transactions # {}
    /\ sum # << >>
    /\ sum[1].income = 0
    /\ sum[1].expense = 0

====
